---- MODULE Spec2Model ----
(***************************************************************************)
(* Token-bucket rate limiter of backend/rate_limiter.py: the Redis store   *)
(* (bucket hashes, script cache, reachability), the atomic Lua script, and *)
(* RateLimiter.check_rate_limit as run by concurrent request handlers.     *)
(*                                                                         *)
(* Time is counted in whole seconds.  Token counts are Lua/Python floats   *)
(* in the code; every rate of RATE_LIMITS is a multiple of 0.5, so they    *)
(* are kept exactly as integers counting 1/TokenUnit of a token.           *)
(***************************************************************************)
EXTENDS Integers, Sequences, FiniteSets, TLC

TokenUnit == 2          \* fixed point: one token = TokenUnit units (rate 0.5 = 1 unit/s)

NumCallers == 2         \* concurrent request handlers
MaxTime == 1            \* seconds the clock advances one by one
MaxCalls == 3           \* check_rate_limit calls in one behaviour, with outages
MaxBucketCalls == 2     \* the same, where policies and costs vary
MaxRaceCalls == 4       \* the same, where racers share one policy

NumRacers == 3          \* callers racing on one bucket
MaxDependsCalls == 3    \* requests through the FastAPI dependency
MaxResolved == 3        \* requests resolved to an identifier and a policy
MaxExpiryCalls == 2     \* calls against a store that evicts, every policy
MaxClassesCalls == 5    \* requests of one peer on two endpoint classes
MaxConfigCalls == 3     \* calls with a policy of the caller's own
MaxOversizeCalls == 2   \* calls, some asking for more than the capacity

Callers == 1..NumCallers
Racers == 1..NumRacers

None == "None"          \* Python None, for the client and the script handle

\* An optional integer (retry_after) is the set of its values: {} is None.
Absent == {}
Some(n) == {n}
NoBucket == [exists |-> FALSE]

Max(a, b) == IF a >= b THEN a ELSE b
Min(a, b) == IF a <= b THEN a ELSE b

\* rate_limiter.py:35-66; tokens_per_second in units per second.
RATE_LIMITS ==
    [ ai_authenticated |-> [tokens_per_second |-> 2 * TokenUnit, burst_capacity |-> 5],
      ai_anonymous     |-> [tokens_per_second |-> TokenUnit \div 2, burst_capacity |-> 2],
      api_authenticated |-> [tokens_per_second |-> 10 * TokenUnit, burst_capacity |-> 20],
      api_anonymous    |-> [tokens_per_second |-> 5 * TokenUnit, burst_capacity |-> 10],
      auth             |-> [tokens_per_second |-> TokenUnit \div 2, burst_capacity |-> 3] ]

\* The values a request handler may pass in this model.
Identifiers == {"ip:a"}
PolicyNames == {"ai_anonymous", "ai_authenticated"}
Costs == {0, 1, 2}

\* The routes of main.py that the burst test requests, and the requests of one burst.
Routes == {"GET /suggestions", "POST /login"}
max_requests == 6

\* A header value is the sequence of its characters; a value that may be
\* missing (a header, request.client) is the set of its values, as retry_after.
RECURSIVE Str(_)
Str(chars) == IF chars = <<>> THEN "" ELSE Head(chars) \o Str(Tail(chars))

\* forwarded.split(",")[0]
RECURSIVE SplitFirst(_)
SplitFirst(chars) ==
    IF chars = <<>> \/ Head(chars) = "," THEN <<>>
    ELSE <<Head(chars)>> \o SplitFirst(Tail(chars))

\* str.strip()
RECURSIVE LStrip(_)
LStrip(chars) ==
    IF chars # <<>> /\ Head(chars) = " " THEN LStrip(Tail(chars)) ELSE chars
RECURSIVE RStrip(_)
RStrip(chars) ==
    IF chars # <<>> /\ chars[Len(chars)] = " "
    THEN RStrip(SubSeq(chars, 1, Len(chars) - 1)) ELSE chars
Strip(chars) == RStrip(LStrip(chars))

TheValue(opt) == CHOOSE v \in opt : TRUE

\* Mutant of get_identifier: the forwarded address wins over the identity.
get_identifier_AddressFirst(request, user_id) ==
    IF request.forwarded # Absent /\ request.forwarded # Some(<<>>)
    THEN "ip:" \o Str(Strip(SplitFirst(TheValue(request.forwarded))))
    ELSE IF user_id # None /\ user_id # "" THEN "user:" \o user_id
    ELSE "ip:" \o (IF request.client # Absent THEN TheValue(request.client) ELSE "unknown")

\* Mutant of get_identifier: the first forwarded entry is used as it stands.
get_identifier_NoStrip(request, user_id) ==
    IF user_id # None /\ user_id # ""
    THEN "user:" \o user_id
    ELSE LET forwarded == request.forwarded
             ip == IF forwarded # Absent /\ forwarded # Some(<<>>)
                   THEN Str(SplitFirst(TheValue(forwarded)))
                   ELSE IF request.client # Absent THEN TheValue(request.client)
                        ELSE "unknown"
         IN  "ip:" \o ip

\* Mutant of get_identifier: the address is returned without its namespace.
get_identifier_NoNamespace(request, user_id) ==
    IF user_id # None /\ user_id # ""
    THEN "user:" \o user_id
    ELSE LET forwarded == request.forwarded
         IN  IF forwarded # Absent /\ forwarded # Some(<<>>)
             THEN Str(Strip(SplitFirst(TheValue(forwarded))))
             ELSE IF request.client # Absent THEN TheValue(request.client)
                  ELSE "unknown"

\* Lines 196-211.  request = [forwarded: the X-Forwarded-For header,
\* client: request.client.host]; `if user_id` is false for None and for "".
get_identifier(request, user_id) ==
    IF user_id # None /\ user_id # ""
    THEN "user:" \o user_id
    ELSE LET forwarded == request.forwarded
             ip == IF forwarded # Absent /\ forwarded # Some(<<>>)
                   THEN Str(Strip(SplitFirst(TheValue(forwarded))))
                   ELSE IF request.client # Absent THEN TheValue(request.client)
                        ELSE "unknown"
         IN  "ip:" \o ip

\* Mutant of get_rate_limit_config: the auth class has an authenticated tier.
get_rate_limit_config_AuthTiers(endpoint_type, is_authenticated) ==
    IF endpoint_type = "ai"
    THEN (IF is_authenticated THEN "ai_authenticated" ELSE "ai_anonymous")
    ELSE IF endpoint_type = "auth"
    THEN (IF is_authenticated THEN "api_authenticated" ELSE "auth")
    ELSE (IF is_authenticated THEN "api_authenticated" ELSE "api_anonymous")

\* Lines 213-233; the result is the name of the policy in RATE_LIMITS.
get_rate_limit_config(endpoint_type, is_authenticated) ==
    IF endpoint_type = "ai"
    THEN (IF is_authenticated THEN "ai_authenticated" ELSE "ai_anonymous")
    ELSE IF endpoint_type = "auth"
    THEN "auth"
    ELSE (IF is_authenticated THEN "api_authenticated" ELSE "api_anonymous")

\* The inputs of the two lookups in this model.
UserIds == {None, "", "u1", "u2"}
Forwarded == {Absent, Some(<<>>), Some(<<" ", "b", " ", ",", "a">>),
              Some(<<"u", "s", "e", "r", ":", "u", "1">>)}
Clients == {Absent, Some("a")}
Requests == [forwarded : Forwarded, client : Clients]
EndpointTypes == {"ai", "api", "auth", "other"}
Direct == [forwarded |-> Absent, client |-> Some("a")]  \* a request from peer "a", no proxy

\* Lines 271-273: what the dependency derives from a request.
Resolution(request, endpoint_type, user_id) ==
    LET is_authenticated == (user_id # None)
    IN  [user_id |-> user_id, request |-> request, endpoint_type |-> endpoint_type,
         is_authenticated |-> is_authenticated,
         identifier |-> get_identifier(request, user_id),
         config |-> get_rate_limit_config(endpoint_type, is_authenticated)]

\* key = f"rate_limit:{identifier}"
Key(identifier) == "rate_limit:" \o identifier
\* The callers and classes of the requests sent through the dependency.
DependsUserIds == {None, "u1"}
DependsEndpointTypes == {"ai", "auth", "other"}
DependsHandlers == {1}

Keys == {Key(i) : i \in Identifiers \cup {get_identifier(Direct, u) : u \in DependsUserIds}}

\* ttl = int(capacity / rate * 2) + 60
TTL(rate, capacity) == ((capacity * TokenUnit * 2) \div rate) + 60

\* An idle period longer than the expiry of any key.
LongIdle == 1 + TTL(RATE_LIMITS.auth.tokens_per_second, RATE_LIMITS.auth.burst_capacity)

\* A Lua number returned by a script becomes a Redis integer reply: the
\* fraction is dropped (the values here are never negative).
LuaToRedisInteger(units) == units \div TokenUnit

\* Mutants of the script: the admit branch writes back the unconsumed count; the
\* admission test ignores the cost; the elapsed time is not clamped at 0.
TOKEN_BUCKET_LUA_SCRIPT_LostUpdate(b, now, rate, capacity, tokens_requested) ==
    LET tokens0      == IF b.exists THEN b.tokens ELSE capacity * TokenUnit
        last_update  == IF b.exists THEN b.last_update ELSE now
        tokens       == Min(capacity * TokenUnit, tokens0 + Max(0, now - last_update) * rate)
    IN  IF tokens >= tokens_requested * TokenUnit
        THEN [tokens |-> tokens, last_update |-> now,
              reply |-> <<1, LuaToRedisInteger(tokens - tokens_requested * TokenUnit),
                          capacity, LuaToRedisInteger(rate)>>]
        ELSE [tokens |-> tokens, last_update |-> now,
              reply |-> <<0, LuaToRedisInteger(tokens), capacity, LuaToRedisInteger(rate)>>]

TOKEN_BUCKET_LUA_SCRIPT_AnyToken(b, now, rate, capacity, tokens_requested) ==
    LET tokens0      == IF b.exists THEN b.tokens ELSE capacity * TokenUnit
        last_update  == IF b.exists THEN b.last_update ELSE now
        tokens       == Min(capacity * TokenUnit, tokens0 + Max(0, now - last_update) * rate)
    IN  IF tokens + TokenUnit >= tokens_requested * TokenUnit
        THEN [tokens |-> Max(0, tokens - tokens_requested * TokenUnit), last_update |-> now,
              reply |-> <<1, LuaToRedisInteger(Max(0, tokens - tokens_requested * TokenUnit)),
                          capacity, LuaToRedisInteger(rate)>>]
        ELSE [tokens |-> tokens, last_update |-> now,
              reply |-> <<0, LuaToRedisInteger(tokens), capacity, LuaToRedisInteger(rate)>>]

\* Mutant of the script: the refill is not capped at the capacity.
TOKEN_BUCKET_LUA_SCRIPT_NoCap(b, now, rate, capacity, tokens_requested) ==
    LET tokens0      == IF b.exists THEN b.tokens ELSE capacity * TokenUnit
        last_update  == IF b.exists THEN b.last_update ELSE now
        tokens       == tokens0 + Max(0, now - last_update) * rate
    IN  IF tokens >= tokens_requested * TokenUnit
        THEN [tokens |-> tokens - tokens_requested * TokenUnit, last_update |-> now,
              reply |-> <<1, LuaToRedisInteger(tokens - tokens_requested * TokenUnit),
                          capacity, LuaToRedisInteger(rate)>>]
        ELSE [tokens |-> tokens, last_update |-> now,
              reply |-> <<0, LuaToRedisInteger(tokens), capacity, LuaToRedisInteger(rate)>>]

TOKEN_BUCKET_LUA_SCRIPT_NoClamp(b, now, rate, capacity, tokens_requested) ==
    LET tokens0      == IF b.exists THEN b.tokens ELSE capacity * TokenUnit
        last_update  == IF b.exists THEN b.last_update ELSE now
        tokens       == Min(capacity * TokenUnit, tokens0 + (now - last_update) * rate)
    IN  IF tokens >= tokens_requested * TokenUnit
        THEN [tokens |-> tokens - tokens_requested * TokenUnit, last_update |-> now,
              reply |-> <<1, LuaToRedisInteger(tokens - tokens_requested * TokenUnit),
                          capacity, LuaToRedisInteger(rate)>>]
        ELSE [tokens |-> tokens, last_update |-> now,
              reply |-> <<0, LuaToRedisInteger(tokens), capacity, LuaToRedisInteger(rate)>>]

\* The script body, lines 72-107, on the hash read by HMGET.  Result: the hash
\* written by HMSET and the reply table as the client receives it.
TOKEN_BUCKET_LUA_SCRIPT(b, now, rate, capacity, tokens_requested) ==
    LET tokens0      == IF b.exists THEN b.tokens ELSE capacity * TokenUnit
        last_update  == IF b.exists THEN b.last_update ELSE now
        time_passed  == Max(0, now - last_update)
        tokens_to_add == time_passed * rate
        tokens       == Min(capacity * TokenUnit, tokens0 + tokens_to_add)
    IN  IF tokens >= tokens_requested * TokenUnit
        THEN [tokens |-> tokens - tokens_requested * TokenUnit, last_update |-> now,
              reply |-> <<1, LuaToRedisInteger(tokens - tokens_requested * TokenUnit),
                          capacity, LuaToRedisInteger(rate)>>]
        ELSE [tokens |-> tokens, last_update |-> now,
              reply |-> <<0, LuaToRedisInteger(tokens), capacity, LuaToRedisInteger(rate)>>]

\* Mutant of the fail-open return value: fail closed.
FailClosed == [allowed |-> FALSE, tokens_remaining |-> 0, limit |-> 999,
               rate |-> 999, retry_after |-> Some(1)]

\* Lines 146 and 194: the fail-open return value.
FailOpen == [allowed |-> TRUE, tokens_remaining |-> 999, limit |-> 999,
             rate |-> 999, retry_after |-> Absent]

\* Lines 172-180.
RetryAfter(tokens_requested, tokens_remaining, tokens_per_second) ==
    LET tokens_needed == tokens_requested - tokens_remaining
    IN  IF tokens_per_second > 0
        THEN Max(1, (tokens_needed \div tokens_per_second) + 1)
        ELSE 1

\* Mutant of the return value: retry_after is computed on admits too.
DecisionRetryAlways(tokens_requested, result) ==
    [allowed |-> (result[1] = 1), tokens_remaining |-> result[2], limit |-> result[3],
     rate |-> result[4],
     retry_after |-> Some(RetryAfter(tokens_requested, result[2], result[4]))]

\* Lines 167-187: the return value built from the script's reply.
Decision(tokens_requested, result) ==
    LET allowed == (result[1] = 1)
    IN  [allowed |-> allowed, tokens_remaining |-> result[2], limit |-> result[3],
         rate |-> result[4],
         retry_after |-> IF allowed THEN Absent
                         ELSE Some(RetryAfter(tokens_requested, result[2], result[4]))]

VARIABLES
    redis_client,   \* module-level client: "client" or None (lines 25-31)
    script_sha,     \* self.script_sha: "sha", None, or "unset" when never assigned
    store_up,       \* the store answers commands
    store_scripts,  \* the store's script cache holds the script
    bucket,         \* key -> hash {tokens, last_update} with its expiry, or NoBucket
    clock,          \* real time, seconds
    idled,          \* the one long idle period has passed
    call,           \* handler -> the check_rate_limit call it is running
    done,           \* the call that returned last, with its return value (history)
    log,            \* key -> history of the script's executions on it
    ncalls,         \* calls started
    redis,          \* self.redis of the RateLimiter instance, "unset" before __init__
    store_silent,   \* the store accepts requests and never answers them
    resolved,       \* the requests resolved so far, with identifier and policy (history)
    responses,      \* route -> status codes of the responses sent, in order (history)
    outcome         \* what the dependency did with the request it finished last

vars == <<redis_client, script_sha, store_up, store_scripts, bucket, clock, idled,
          call, done, log, ncalls, redis, store_silent, resolved, responses, outcome>>

IdleCall == [pc |-> "idle"]
NoOutcome == [status |-> "none"]
NoCall == [path |-> "none"]

\* History of one key: how many executions admitted and denied per timestamp
\* `now`, the policies and costs they used, and the last execution.
NoLast == [cfg |-> None]
NoLog == [admitted |-> <<>>, denied |-> <<>>, admitted_by |-> <<>>, cfgs |-> {}, costs |-> {},
          kept |-> NoBucket, last |-> NoLast]
Count(f, t) == IF t \in DOMAIN f THEN f[t] ELSE 0
Bump(f, t) == [x \in DOMAIN f \cup {t} |-> IF x = t THEN Count(f, t) + 1 ELSE f[x]]

\* Lines 123-125.
is_enabled == redis # None /\ script_sha # None

\* Lines 25-31 and 114-121: the states construction can end in.
Init ==
    /\ \/ redis_client = "client" /\ script_sha = "sha" /\ store_up = TRUE /\ store_scripts = TRUE
       \/ redis_client = "client" /\ script_sha = None /\ store_up \in BOOLEAN /\ store_scripts = FALSE
       \/ redis_client = None /\ script_sha = "unset" /\ store_up = FALSE /\ store_scripts = FALSE
    /\ bucket = [k \in Keys |-> NoBucket]
    /\ clock = 0
    /\ idled = FALSE
    /\ call = [c \in Callers \cup Racers |-> IdleCall]
    /\ done = NoCall
    /\ log = [k \in Keys |-> NoLog]
    /\ ncalls = 0
    /\ redis = redis_client
    /\ store_silent = FALSE
    /\ resolved = {}
    /\ responses = [r \in Routes |-> <<>>]
    /\ outcome = NoOutcome

InFlight(c) == call[c].pc # "idle"

\* A key past its EXPIRE time does not exist for the command that reads it.
Live(b, t) == IF b.exists /\ t < b.expire_at THEN b ELSE NoBucket

\* Line 130: rate_limit_config is any dict the caller passes, an entry of the
\* table or one of its own; here one with no refill.
CallerConfigs == [no_refill |-> [tokens_per_second |-> 0, burst_capacity |-> 1]]
Config(cfg) == IF cfg \in DOMAIN RATE_LIMITS THEN RATE_LIMITS[cfg] ELSE CallerConfigs[cfg]

\* Line 152, outside the try block: capacity / rate raises for rate = 0 and
\* the exception leaves the method; there is no return value.
ZeroDivisionError == [exception |-> "ZeroDivisionError"]

\* What is kept of a finished call: its arguments, the way it took, its return value.
Finished(r, path, ret) ==
    [path |-> path, after_error |-> r.after_error, identifier |-> r.identifier,
     cfg |-> r.cfg, cost |-> r.cost, reachable |-> r.reachable, ret |-> ret]

\* Lines 144-152: the call up to the evalsha request.  The handlers are
\* interchangeable: a request goes to the idle handler of lowest number.
Call(c, identifier, cfg, tokens_requested) ==
    /\ ~InFlight(c)
    /\ \A d \in DOMAIN call : d < c => InFlight(d)
    /\ ncalls' = ncalls + 1
    /\ LET rate == Config(cfg).tokens_per_second
           capacity == Config(cfg).burst_capacity
           args == [after_error |-> (done.path = "error"), identifier |-> identifier, cfg |-> cfg,
                    cost |-> tokens_requested, reachable |-> store_up]
       IN  IF ~is_enabled
           THEN /\ done' = Finished(args, "disabled", FailOpen)
                /\ UNCHANGED call
           ELSE IF rate = 0
           THEN /\ done' = Finished(args, "raised", ZeroDivisionError)
                /\ UNCHANGED call
           ELSE /\ call' = [call EXCEPT ![c] =
                      args @@ [pc |-> "evalsha", key |-> Key(identifier), now |-> clock,
                               rate |-> rate, capacity |-> capacity,
                               ttl |-> TTL(rate, capacity)]]
                /\ UNCHANGED done
    /\ UNCHANGED <<redis_client, script_sha, store_up, store_scripts, bucket, clock, idled, log>>
    /\ UNCHANGED <<redis, store_silent, responses, outcome>>

Rate(cfg) == Config(cfg).tokens_per_second
Capacity(cfg) == Config(cfg).burst_capacity

\* The tokens a request finds (history): the script's refill (lines 81-93), a
\* missing bucket counting as full.
Refilled(b, now, cfg) ==
    IF b.exists
    THEN Min(Capacity(cfg) * TokenUnit, b.tokens + Max(0, now - b.last_update) * Rate(cfg))
    ELSE Capacity(cfg) * TokenUnit

\* The execution is the retry of the denial before it on the key: same policy
\* and cost, sampled retry_after seconds after the denied request.
IsRetry(last, r) ==
    /\ last # NoLast
    /\ ~last.ret.allowed
    /\ last.cfg = r.cfg /\ last.cost = r.cost
    /\ last.now = last.at
    /\ Some(r.now - last.now) = last.ret.retry_after

\* The history of a key after one more execution of the script on it: `pre` is
\* the hash the script read, `r` what it wrote and replied.  `kept` is the hash
\* a store that never evicts would hold after the same executions, and
\* `kept_ret` the return value the call would build from that store's reply.
Executed(l, r0, at, pre, r) ==
    LET s == TOKEN_BUCKET_LUA_SCRIPT(l.kept, r0.now, r0.rate, r0.capacity, r0.cost)
    IN  [admitted |-> IF r.reply[1] = 1 THEN Bump(l.admitted, r0.now) ELSE l.admitted,
         denied |-> IF r.reply[1] = 1 THEN l.denied ELSE Bump(l.denied, r0.now),
         admitted_by |-> IF r.reply[1] = 1 THEN Bump(l.admitted_by, <<r0.cfg, r0.now>>)
                         ELSE l.admitted_by,
         cfgs |-> l.cfgs \cup {r0.cfg},
         costs |-> l.costs \cup {r0.cost},
         kept |-> [exists |-> TRUE, tokens |-> s.tokens, last_update |-> s.last_update],
         last |-> [cfg |-> r0.cfg, cost |-> r0.cost, now |-> r0.now, at |-> at, pre |-> pre,
                   tokens |-> r.tokens,
                   ret |-> Decision(r0.cost, r.reply),
                   kept_ret |-> Decision(r0.cost, s.reply)]]

\* Mutant of the store's step: the hash is written under every key.
EvalshaAllKeys(c) ==
    /\ call[c].pc = "evalsha"
    /\ ~store_silent
    /\ store_up /\ store_scripts
    /\ LET k == call[c].key
           pre == Live(bucket[k], clock)
           r == TOKEN_BUCKET_LUA_SCRIPT(pre, call[c].now, call[c].rate,
                                        call[c].capacity, call[c].cost)
       IN  /\ bucket' = [j \in Keys |->
                    [exists |-> TRUE, tokens |-> r.tokens, last_update |-> r.last_update,
                     expire_at |-> clock + call[c].ttl]]
           /\ call' = [call EXCEPT ![c] =
                    [@ EXCEPT !.pc = "reply"] @@
                    [result |-> r.reply, had |-> Refilled(pre, call[c].now, call[c].cfg),
                     retry |-> IsRetry(log[k].last, call[c])]]
           /\ log' = [log EXCEPT ![k] = Executed(@, call[c], clock, pre, r)]
    /\ UNCHANGED <<redis_client, script_sha, store_up, store_scripts, clock, idled, done, ncalls>>
    /\ UNCHANGED <<redis, store_silent, resolved, responses, outcome>>

\* Lines 156-165 at the store: the script runs atomically and the key's expiry is reset.
Evalsha(c) ==
    /\ call[c].pc = "evalsha"
    /\ ~store_silent
    /\ store_up /\ store_scripts
    /\ LET k == call[c].key
           pre == Live(bucket[k], clock)
           r == TOKEN_BUCKET_LUA_SCRIPT(pre, call[c].now, call[c].rate,
                                        call[c].capacity, call[c].cost)
       IN  /\ bucket' = [bucket EXCEPT ![k] =
                    [exists |-> TRUE, tokens |-> r.tokens, last_update |-> r.last_update,
                     expire_at |-> clock + call[c].ttl]]
           /\ call' = [call EXCEPT ![c] =
                    [@ EXCEPT !.pc = "reply"] @@
                    [result |-> r.reply, had |-> Refilled(pre, call[c].now, call[c].cfg),
                     retry |-> IsRetry(log[k].last, call[c])]]
           /\ log' = [log EXCEPT ![k] = Executed(@, call[c], clock, pre, r)]
    /\ UNCHANGED <<redis_client, script_sha, store_up, store_scripts, clock, idled, done, ncalls>>
    /\ UNCHANGED <<redis, store_silent, resolved, responses, outcome>>

\* Mutant of the error handler: the failed call drops the script handle.
EvalshaErrorDisables(c) ==
    /\ call[c].pc = "evalsha"
    /\ ~store_silent
    /\ ~(store_up /\ store_scripts)
    /\ done' = Finished(call[c], "error", FailOpen)
    /\ call' = [call EXCEPT ![c] = IdleCall]
    /\ script_sha' = None
    /\ UNCHANGED <<redis_client, store_up, store_scripts, bucket, clock, idled, log, ncalls>>
    /\ UNCHANGED <<redis, store_silent, resolved, responses, outcome>>

\* Lines 189-194: evalsha raises (connection refused, NOSCRIPT) before the script ran.
EvalshaErrorStep(c) ==
    /\ call[c].pc = "evalsha"
    /\ ~store_silent
    /\ ~(store_up /\ store_scripts)
    /\ done' = Finished(call[c], "error", FailOpen)
    /\ call' = [call EXCEPT ![c] = IdleCall]
    /\ UNCHANGED <<redis_client, script_sha, store_up, store_scripts, bucket, clock, idled,
                   log, ncalls>>
    /\ UNCHANGED <<redis, store_silent, resolved, responses>>

EvalshaError(c) == EvalshaErrorStep(c) /\ UNCHANGED outcome

\* Lines 189-194: the connection drops after the script ran, before the reply is read.
ReplyLostStep(c) ==
    /\ call[c].pc = "reply"
    /\ ~store_silent
    /\ ~store_up
    /\ done' = Finished(call[c], "error", FailOpen) @@ [had |-> call[c].had]
    /\ call' = [call EXCEPT ![c] = IdleCall]
    /\ UNCHANGED <<redis_client, script_sha, store_up, store_scripts, bucket, clock, idled,
                   log, ncalls>>
    /\ UNCHANGED <<redis, store_silent, resolved, responses>>

ReplyLost(c) == ReplyLostStep(c) /\ UNCHANGED outcome

\* Lines 167-187: the reply arrives and the return value is built.
ReturnStep(c) ==
    /\ call[c].pc = "reply"
    /\ ~store_silent
    /\ done' = Finished(call[c], "normal", Decision(call[c].cost, call[c].result)) @@
               [had |-> call[c].had, retry |-> call[c].retry]
    /\ call' = [call EXCEPT ![c] = IdleCall]
    /\ UNCHANGED <<redis_client, script_sha, store_up, store_scripts, bucket, clock, idled,
                   log, ncalls>>
    /\ UNCHANGED <<redis, store_silent, resolved, responses>>

Return(c) == ReturnStep(c) /\ UNCHANGED outcome

\* The calls in flight see the store fail.
Interrupted == [c \in DOMAIN call |->
                  IF InFlight(c) THEN [call[c] EXCEPT !.reachable = FALSE] ELSE call[c]]

\* The store becomes unreachable.
StoreDown ==
    /\ store_up
    /\ store_up' = FALSE
    /\ call' = Interrupted
    /\ UNCHANGED <<redis_client, script_sha, store_scripts, bucket, clock, idled, done, log,
                   ncalls>>
    /\ UNCHANGED <<redis, store_silent, resolved, responses, outcome>>

\* The store becomes reachable (again).
StoreUp ==
    /\ ~store_up
    /\ store_up' = TRUE
    /\ UNCHANGED <<redis_client, script_sha, store_scripts, bucket, clock, idled, call, done,
                   log, ncalls>>
    /\ UNCHANGED <<redis, store_silent, resolved, responses, outcome>>

\* The store loses its script cache (a restart with persisted data, SCRIPT FLUSH).
ScriptFlush ==
    /\ store_scripts
    /\ store_scripts' = FALSE
    /\ UNCHANGED <<redis_client, script_sha, store_up, bucket, clock, idled, call, done, log,
                   ncalls>>
    /\ UNCHANGED <<redis, store_silent, resolved, responses, outcome>>

\* One second passes.
Tick ==
    /\ clock < MaxTime + (IF idled THEN LongIdle ELSE 0)
    /\ clock' = clock + 1
    /\ UNCHANGED <<redis_client, script_sha, store_up, store_scripts, bucket, idled, call,
                   done, log, ncalls>>
    /\ UNCHANGED <<redis, store_silent, resolved, responses, outcome>>

\* No request for longer than any key's expiry.
Idle ==
    /\ ~idled
    /\ \A c \in DOMAIN call : ~InFlight(c)
    /\ idled' = TRUE
    /\ clock' = clock + LongIdle
    /\ UNCHANGED <<redis_client, script_sha, store_up, store_scripts, bucket, call,
                   done, log, ncalls>>
    /\ UNCHANGED <<redis, store_silent, resolved, responses, outcome>>

\* The store deletes a key whose expiry has passed.
Expire(k) ==
    /\ bucket[k].exists
    /\ clock >= bucket[k].expire_at
    /\ bucket' = [bucket EXCEPT ![k] = NoBucket]
    /\ UNCHANGED <<redis_client, script_sha, store_up, store_scripts, clock, idled, call,
                   done, log, ncalls>>
    /\ UNCHANGED <<redis, store_silent, resolved, responses, outcome>>

\* The store's own steps while it is healthy, and the passing of time.
StoreStep == Idle \/ \E k \in Keys : Expire(k)

\* The store fails and recovers.
Outage == StoreDown \/ StoreUp \/ ScriptFlush

\* Every construction outcome, one policy, store outages.
Next ==
    \/ \E c \in Callers, i \in Identifiers :
            ncalls < MaxCalls /\ Call(c, i, "ai_anonymous", 1) /\ UNCHANGED resolved
    \/ \E c \in Callers : Evalsha(c)
    \/ \E c \in Callers : EvalshaError(c)
    \/ \E c \in Callers : ReplyLost(c)
    \/ \E c \in Callers : Return(c)
    \/ Outage
    \/ Tick

Spec == Init /\ [][Next]_vars

\* A limiter constructed Enabled on a healthy store: every policy and cost of
\* the model, key expiry included.
InitEnabled == Init /\ is_enabled

NextBucket ==
    \/ \E c \in Callers, i \in Identifiers, cfg \in PolicyNames, n \in Costs :
            ncalls < MaxBucketCalls /\ Call(c, i, cfg, n) /\ UNCHANGED resolved
    \/ \E c \in Callers : Evalsha(c)
    \/ \E c \in Callers : Return(c)
    \/ Tick
    \/ StoreStep

SpecBucket == InitEnabled /\ [][NextBucket]_vars

\* Racers issuing cost-1 requests under one policy against one identifier.
NextRace ==
    \/ \E c \in Racers, i \in Identifiers :
            ncalls < MaxRaceCalls /\ Call(c, i, "ai_anonymous", 1) /\ UNCHANGED resolved
    \/ \E c \in Racers : Evalsha(c)
    \/ \E c \in Racers : Return(c)
    \/ Tick

SpecRace == InitEnabled /\ [][NextRace]_vars

\* Before the module is imported: nothing is assigned, the store is there or not.
InitStartup ==
    /\ redis_client = "unset" /\ redis = "unset" /\ script_sha = "unset"
    /\ store_up \in BOOLEAN /\ store_scripts = FALSE
    /\ bucket = [k \in Keys |-> NoBucket]
    /\ clock = 0
    /\ idled = FALSE
    /\ call = [c \in Callers \cup Racers |-> IdleCall]
    /\ done = NoCall
    /\ log = [k \in Keys |-> NoLog]
    /\ ncalls = 0
    /\ store_silent = FALSE
    /\ resolved = {}
    /\ responses = [r \in Routes |-> <<>>]
    /\ outcome = NoOutcome

\* Lines 25-31: from_url and ping; any exception leaves redis_client = None.
Connect ==
    /\ redis_client = "unset"
    /\ redis_client' = IF store_up THEN "client" ELSE None
    /\ UNCHANGED <<script_sha, store_up, store_scripts, bucket, clock, idled, call, done, log,
                   ncalls, redis, store_silent, resolved, responses, outcome>>

\* Mutant of __init__: the exception of script_load is not caught.
RateLimiterInitRaises(registers) ==
    /\ redis_client # "unset" /\ redis = "unset"
    /\ redis_client = "client" => store_up /\ registers
    /\ redis' = redis_client
    /\ IF redis_client = "client"
       THEN script_sha' = "sha" /\ store_scripts' = TRUE
       ELSE UNCHANGED <<script_sha, store_scripts>>
    /\ UNCHANGED <<redis_client, store_up, bucket, clock, idled, call, done, log, ncalls,
                   store_silent, resolved, responses, outcome>>

\* Lines 112-119, run by rate_limiter = RateLimiter() (line 237); `registers`
\* is whether a reachable store accepts script_load.
RateLimiterInit(registers) ==
    /\ redis_client # "unset" /\ redis = "unset"
    /\ redis' = redis_client
    /\ IF redis_client = "client"
       THEN IF store_up /\ registers
            THEN script_sha' = "sha" /\ store_scripts' = TRUE
            ELSE script_sha' = None /\ UNCHANGED store_scripts
       ELSE UNCHANGED <<script_sha, store_scripts>>
    /\ UNCHANGED <<redis_client, store_up, bucket, clock, idled, call, done, log, ncalls,
                   store_silent, resolved, responses, outcome>>

\* Process start on a store that may be absent or fail at any moment, then calls.
NextStartup ==
    \/ Connect
    \/ \E registers \in BOOLEAN : RateLimiterInit(registers)
    \/ \E c \in Callers, i \in Identifiers :
            /\ redis # "unset" /\ ncalls < MaxCalls
            /\ Call(c, i, "ai_anonymous", 1) /\ UNCHANGED resolved
    \/ \E c \in Callers : Evalsha(c)
    \/ \E c \in Callers : EvalshaError(c)
    \/ \E c \in Callers : ReplyLost(c)
    \/ \E c \in Callers : Return(c)
    \/ StoreDown
    \/ StoreUp

SpecStartup == InitStartup /\ [][NextStartup]_vars

\* The store stops answering: it keeps the connection and sends no reply.  The
\* client is built by redis.from_url(REDIS_URL, decode_responses=True) (line 26)
\* with no socket timeout, so a command waits for its reply.
StoreHangs ==
    /\ store_up /\ ~store_silent
    /\ store_silent' = TRUE
    /\ UNCHANGED <<redis_client, script_sha, store_up, store_scripts, bucket, clock, idled,
                   call, done, log, ncalls, redis, resolved, responses, outcome>>

\* A call in flight takes its next step once the store has answered or refused.
Proceed(c) == Evalsha(c) \/ EvalshaError(c) \/ ReplyLost(c) \/ Return(c)

\* Calls on a store that fails, recovers, or stops answering; a handler whose
\* command was answered or refused goes on running.
NextLive ==
    \/ \E c \in Callers, i \in Identifiers :
            ncalls < MaxCalls /\ Call(c, i, "ai_anonymous", 1) /\ UNCHANGED resolved
    \/ \E c \in Callers : Evalsha(c)
    \/ \E c \in Callers : EvalshaError(c)
    \/ \E c \in Callers : ReplyLost(c)
    \/ \E c \in Callers : Return(c)
    \/ StoreDown
    \/ StoreUp
    \/ StoreHangs
    \/ Tick

SpecLive == InitEnabled /\ [][NextLive]_vars /\ \A c \in Callers : WF_vars(Proceed(c))

\* f"{config['tokens_per_second']}": an integer rate prints without a fraction,
\* a rate with half a token as ".5".
RateText(units) ==
    ToString(units \div TokenUnit) \o (IF units % TokenUnit = 0 THEN "" ELSE ".5")

\* Line 269 and the fall-through after line 277: the dependency returns None.
Proceeds == [status |-> "proceeds"]

\* Mutant of the exception: the rate in the body is the one of the return value.
HTTPExceptionRateOfReply(config, info, time) ==
    LET retry_after == TheValue(info.retry_after)
    IN  [status |-> "raised", status_code |-> 429,
         detail |-> [error |-> "Rate limit exceeded",
                     message |-> "Too many requests. Please try again in "
                                 \o ToString(retry_after) \o " seconds.",
                     retry_after |-> retry_after,
                     limit |-> info.limit,
                     rate |-> ToString(info.rate) \o " requests/second"],
         headers |-> [h \in {"Retry-After", "RateLimit-Limit", "RateLimit-Remaining",
                             "RateLimit-Reset"} |->
                        CASE h = "Retry-After" -> ToString(retry_after)
                          [] h = "RateLimit-Limit" -> ToString(info.limit)
                          [] h = "RateLimit-Remaining" -> "0"
                          [] h = "RateLimit-Reset" -> ToString(time + retry_after)]]

\* Lines 277-294: the exception raised for a return value with allowed = False.
HTTPException(config, info, time) ==
    LET retry_after == TheValue(info.retry_after)
    IN  [status |-> "raised", status_code |-> 429,
         detail |-> [error |-> "Rate limit exceeded",
                     message |-> "Too many requests. Please try again in "
                                 \o ToString(retry_after) \o " seconds.",
                     retry_after |-> retry_after,
                     limit |-> info.limit,
                     rate |-> RateText(config.tokens_per_second) \o " requests/second"],
         headers |-> [h \in {"Retry-After", "RateLimit-Limit", "RateLimit-Remaining",
                             "RateLimit-Reset"} |->
                        CASE h = "Retry-After" -> ToString(retry_after)
                          [] h = "RateLimit-Limit" -> ToString(info.limit)
                          [] h = "RateLimit-Remaining" -> "0"
                          [] h = "RateLimit-Reset" -> ToString(time + retry_after)]]

\* Lines 252-275: the FastAPI dependency up to the limiter's decision; it
\* raises 429 (lines 277-294) when the decision returned is a denial.
check_rate_limit(c, request, endpoint_type, user_id) ==
    IF ~is_enabled
    THEN /\ ncalls' = ncalls + 1
         /\ outcome' = Proceeds
         /\ UNCHANGED <<redis_client, script_sha, store_up, store_scripts, bucket, clock,
                        idled, call, done, log, redis, store_silent, resolved, responses>>
    ELSE LET r == Resolution(request, endpoint_type, user_id)
         IN  /\ resolved' = resolved \cup {r}
             /\ Call(c, r.identifier, r.config, 1)

\* Lines 275-294: the dependency continues with the return value of the call.
Respond ==
    outcome' = IF done'.ret.allowed THEN Proceeds
               ELSE HTTPException(Config(done'.cfg), done'.ret, clock)

\* One peer, anonymous or authenticated, on several endpoint classes, its requests
\* served one after another, and the store failing.
NextDepends ==
    \/ \E c \in DependsHandlers, endpoint_type \in DependsEndpointTypes, user_id \in DependsUserIds :
            ncalls < MaxDependsCalls /\ check_rate_limit(c, Direct, endpoint_type, user_id)
    \/ \E c \in DependsHandlers : Evalsha(c)
    \/ \E c \in DependsHandlers : EvalshaErrorStep(c) /\ Respond
    \/ \E c \in DependsHandlers : ReplyLostStep(c) /\ Respond
    \/ \E c \in DependsHandlers : ReturnStep(c) /\ Respond
    \/ StoreDown
    \/ Tick

SpecDepends == Init /\ [][NextDepends]_vars

\* Lines 271-273 alone: the identifier and the policy of one request.
Resolve(request, endpoint_type, user_id) ==
    /\ resolved' = resolved \cup {Resolution(request, endpoint_type, user_id)}
    /\ UNCHANGED <<redis_client, script_sha, store_up, store_scripts, bucket, clock, idled,
                   call, done, log, ncalls, redis, store_silent, responses, outcome>>

\* Every request and identity under one class, every class for one request.
NextResolve ==
    \/ \E request \in Requests, user_id \in UserIds :
            Cardinality(resolved) < MaxResolved /\ Resolve(request, "api", user_id)
    \/ \E endpoint_type \in EndpointTypes, user_id \in {None, "u1"} :
            Cardinality(resolved) < MaxResolved /\ Resolve(Direct, endpoint_type, user_id)

SpecResolve == InitEnabled /\ [][NextResolve]_vars

\* main.py 210-262: GET /suggestions.  The route declares no dependency; the
\* handler answers 200 with the generated suggestions, or with the static ones
\* when the generation raises.
get_suggestions ==
    /\ Len(responses["GET /suggestions"]) < max_requests
    /\ responses' = [responses EXCEPT !["GET /suggestions"] = Append(@, 200)]
    /\ UNCHANGED <<redis_client, script_sha, store_up, store_scripts, bucket, clock, idled,
                   call, done, log, ncalls, redis, store_silent, resolved, outcome>>

\* main.py 178-193: POST /login.  The route depends on get_db only; the handler
\* answers 401 for a wrong username or password and 200 with a token otherwise.
login(valid) ==
    /\ Len(responses["POST /login"]) < max_requests
    /\ responses' = [responses EXCEPT !["POST /login"] = Append(@, IF valid THEN 200 ELSE 401)]
    /\ UNCHANGED <<redis_client, script_sha, store_up, store_scripts, bucket, clock, idled,
                   call, done, log, ncalls, redis, store_silent, resolved, outcome>>

\* The application serving the bursts of test_rate_limits.py, limiter enabled.
NextRoutes ==
    \/ get_suggestions
    \/ \E valid \in BOOLEAN : login(valid)
    \/ Tick

SpecRoutes == InitEnabled /\ [][NextRoutes]_vars

\* A call stays in flight, between sampling `now` (line 151) and the store
\* running the script, for longer than any key's expiry: the store or the path
\* to it stalls and resumes, and the client has no timeout (line 26).
Stall ==
    /\ ~idled
    /\ \E c \in DOMAIN call : call[c].pc = "evalsha"
    /\ idled' = TRUE
    /\ clock' = clock + LongIdle
    /\ UNCHANGED <<redis_client, script_sha, store_up, store_scripts, bucket, call,
                   done, log, ncalls>>
    /\ UNCHANGED <<redis, store_silent, resolved, responses, outcome>>

\* Every policy of the table on one key, with requests of cost 1 and requests
\* that take a full bucket, on a store that evicts idle keys.
ExpiryCosts(cfg) == {1, Capacity(cfg)}

NextExpiry ==
    \/ \E c \in Callers, i \in Identifiers, cfg \in DOMAIN RATE_LIMITS :
            \E n \in ExpiryCosts(cfg) :
                ncalls < MaxExpiryCalls /\ Call(c, i, cfg, n) /\ UNCHANGED resolved
    \/ \E c \in Callers : Evalsha(c)
    \/ \E c \in Callers : Return(c)
    \/ Tick
    \/ StoreStep
    \/ Stall

SpecExpiry == InitEnabled /\ [][NextExpiry]_vars

\* One anonymous peer sending requests to routes of the auth class and of the
\* api class, served one after another.
ClassesEndpointTypes == {"auth", "api"}

NextClasses ==
    \/ \E c \in DependsHandlers, endpoint_type \in ClassesEndpointTypes :
            ncalls < MaxClassesCalls /\ check_rate_limit(c, Direct, endpoint_type, None)
    \/ \E c \in DependsHandlers : Evalsha(c)
    \/ \E c \in DependsHandlers : ReturnStep(c) /\ Respond
    \/ Tick

SpecClasses == InitEnabled /\ [][NextClasses]_vars

\* Every construction outcome, a policy of the table and a caller's policy
\* without refill, store outages.
ConfigNames == {"auth", "no_refill"}

NextConfig ==
    \/ \E c \in Callers, i \in Identifiers, cfg \in ConfigNames :
            ncalls < MaxConfigCalls /\ Call(c, i, cfg, 1) /\ UNCHANGED resolved
    \/ \E c \in Callers : Evalsha(c)
    \/ \E c \in Callers : EvalshaError(c)
    \/ \E c \in Callers : ReplyLost(c)
    \/ \E c \in Callers : Return(c)
    \/ Outage
    \/ Tick

SpecConfig == Init /\ [][NextConfig]_vars

\* Requests of cost 1 and requests that ask for more than the capacity of their
\* policy, on a store that evicts idle keys.
OversizeCosts(cfg) == {1, Capacity(cfg) + 1}

NextOversize ==
    \/ \E c \in Callers, i \in Identifiers, cfg \in PolicyNames :
            \E n \in OversizeCosts(cfg) :
                ncalls < MaxOversizeCalls /\ Call(c, i, cfg, n) /\ UNCHANGED resolved
    \/ \E c \in Callers : Evalsha(c)
    \/ \E c \in Callers : Return(c)
    \/ Tick
    \/ StoreStep

SpecOversize == InitEnabled /\ [][NextOversize]_vars

(***************************************************************************)
(* Properties                                                              *)
(***************************************************************************)
\* Executions recorded on a key with timestamp in [t0, t1].
RECURSIVE InWindow(_, _, _)
InWindow(f, t0, t1) ==
    IF t0 > t1 THEN 0 ELSE Count(f, t0) + InWindow(f, t0 + 1, t1)

Stamps(k) == DOMAIN log[k].admitted \cup DOMAIN log[k].denied
Admitted(k) == InWindow(log[k].admitted, 0, clock)
Denied(k) == InWindow(log[k].denied, 0, clock)

\* Every execution on the key so far used policy cfg and cost 1.
Only(k, cfg) == log[k].cfgs = {cfg} /\ log[k].costs = {1}

\* C1: for a fixed identifier and policy, the cost-1 requests admitted with
\* timestamps in any window [t0, t1] number at most capacity + rate * (t1 - t0),
\* also when callers sample `now` before their update commits.
C1_AdmissionBound ==
    \A k \in Keys, cfg \in PolicyNames :
        Only(k, cfg) =>
            \A t0 \in 0..clock, t1 \in 0..clock :
                t0 <= t1 =>
                    InWindow(log[k].admitted, t0, t1) * TokenUnit
                        <= Capacity(cfg) * TokenUnit + Rate(cfg) * (t1 - t0)

\* C2: k > c callers each racing one cost-1 request against a fresh bucket of
\* capacity c with the same timestamp: exactly c are admitted and k - c denied.
AllRaced ==
    /\ ncalls = NumRacers
    /\ \A c \in Racers : call[c].pc = "reply"
    /\ \A c, d \in Racers : call[c].now = call[d].now /\ call[c].key = call[d].key
Admits(c) == Decision(call[c].cost, call[c].result).allowed
C2_ExactlyCapacity ==
    AllRaced /\ NumRacers > Capacity("ai_anonymous") =>
        /\ Cardinality({c \in Racers : Admits(c)}) = Capacity("ai_anonymous")
        /\ Cardinality({c \in Racers : ~Admits(c)}) = NumRacers - Capacity("ai_anonymous")
C2_Witness ==
    /\ AllRaced /\ NumRacers > Capacity("ai_anonymous")
    /\ \E c \in Racers : ~Admits(c)

\* C3: every stored bucket holds 0 <= tokens <= capacity of the policy that
\* last wrote it, and every non-degraded return value has tokens_remaining in
\* [0, limit].
C3_TokensBounded ==
    /\ \A k \in Keys :
          bucket[k].exists =>
              /\ 0 <= bucket[k].tokens
              /\ bucket[k].tokens <= Capacity(log[k].last.cfg) * TokenUnit
    /\ done.path = "normal" =>
          /\ 0 <= done.ret.tokens_remaining
          /\ done.ret.tokens_remaining <= done.ret.limit
\* A second policy wrote the bucket with a timestamp older than last_update.
C3_Witness ==
    \E k \in Keys :
        /\ bucket[k].exists
        /\ Cardinality(log[k].cfgs) = 2
        /\ log[k].last.pre.exists
        /\ log[k].last.now < log[k].last.pre.last_update
        /\ log[k].last.cost > 0
        /\ done.path = "normal" /\ done.ret.limit = Capacity(log[k].last.cfg)

\* C4: a call made while the limiter is Disabled, or whose store call raises,
\* returns allowed = true with 999 for tokens_remaining, limit and rate and no
\* retry_after, each time.
C4_FailOpen ==
    (done.path \in {"disabled", "error"} \/ (done.path # "none" /\ ~is_enabled)) =>
        /\ done.ret.allowed = TRUE
        /\ done.ret.tokens_remaining = 999
        /\ done.ret.limit = 999
        /\ done.ret.rate = 999
        /\ done.ret.retry_after = {}
C4_Witness ==
    done.path = "error" /\ done.after_error /\ ncalls = MaxCalls

\* C5: whatever disabled the limiter, a call made while the store is reachable
\* does normal bucket accounting.
C5_RecoversWhenReachable ==
    done.path # "none" /\ done.reachable => done.path = "normal"

\* C6: a store error fails open for that call only: the limiter's state never
\* changes, the next call goes to the store again, and a call that succeeds
\* returns the token-bucket decision.
C6_ErrorNotSticky ==
    /\ [][redis_client' = redis_client /\ script_sha' = script_sha]_vars
    /\ [](/\ done.path # "none" /\ done.after_error => done.path # "disabled"
          /\ done.path = "normal" =>
                done.ret.allowed = (done.had >= done.cost * TokenUnit))
C6_Witness ==
    done.path = "normal" /\ done.after_error /\ ~done.ret.allowed

\* C7: requests of cost 1 on a fresh bucket with no time between them: at most
\* capacity are admitted, and once capacity are admitted the later ones are denied.
SameInstant(k) == Cardinality(Stamps(k)) = 1
C7_Conservation ==
    \A k \in Keys, cfg \in PolicyNames :
        Only(k, cfg) /\ SameInstant(k) =>
            /\ Admitted(k) <= Capacity(cfg)
            /\ Admitted(k) + Denied(k) > Capacity(cfg) => ~log[k].last.ret.allowed
C7_Witness ==
    \E k \in Keys :
        /\ Only(k, "ai_anonymous") /\ SameInstant(k)
        /\ Admitted(k) = Capacity("ai_anonymous")
        /\ Denied(k) = 2

\* C8: the retry of a denied request, made retry_after seconds later with
\* nothing else touching the bucket, is admitted.
C8_RetryAdmitted ==
    done.path = "normal" /\ done.retry => done.ret.allowed

\* C9: rate 0.5, capacity 2, fresh identifier: request 1 admitted (2 -> 1),
\* request 2 admitted (1 -> 0), request 3 denied with retry_after = 2, and a
\* 4th request 2 seconds later admitted.
C9_Scenario ==
    \A k \in Keys :
        LET last == log[k].last
            n == Admitted(k) + Denied(k)
        IN  Only(k, "ai_anonymous") =>
              /\ n = 1 => last.ret.allowed /\ ~last.pre.exists /\ last.tokens = 1 * TokenUnit
              /\ n = 2 /\ SameInstant(k) =>
                    last.ret.allowed /\ last.pre.tokens = 1 * TokenUnit /\ last.tokens = 0
              /\ n = 3 /\ SameInstant(k) =>
                    ~last.ret.allowed /\ last.ret.retry_after = {2}
              /\ (n = 4 /\ Cardinality(Stamps(k)) = 2 /\ last.now - 2 \in Stamps(k)
                    /\ Count(log[k].admitted, last.now) + Count(log[k].denied, last.now) = 1)
                    => last.ret.allowed

\* C10: on a denial retry_after = max(1, ceil((cost - tokens) / rate)) for the
\* refilled token count of the bucket.
CeilDiv(a, b) == (a + b - 1) \div b
C10_RetryAfterFormula ==
    \A k \in Keys :
        LET last == log[k].last
        IN  last # NoLast /\ ~last.ret.allowed =>
                last.ret.retry_after
                    = {Max(1, CeilDiv(last.cost * TokenUnit - last.tokens, Rate(last.cfg)))}

\* C11: identity has strict precedence: a request with an identity is keyed by
\* "user:" + identity whatever its addresses; the same identity with different
\* addresses gives one bucket key, different identities with the same address
\* give different bucket keys.  (An identity is a non-empty string.)
HasIdentity(r) == r.user_id # None /\ r.user_id # ""
HasAddress(r) == r.request.forwarded \notin {Absent, Some(<<>>)} \/ r.request.client # Absent
C11_IdentityPrecedence ==
    /\ \A r \in resolved : HasIdentity(r) => r.identifier = "user:" \o r.user_id
    /\ \A r1, r2 \in resolved :
          HasIdentity(r1) /\ HasIdentity(r2) =>
              /\ r1.user_id = r2.user_id => Key(r1.identifier) = Key(r2.identifier)
              /\ r1.user_id # r2.user_id => Key(r1.identifier) # Key(r2.identifier)
C11_Witness ==
    \E r1, r2 \in resolved :
        /\ HasIdentity(r1) /\ r1.user_id = r2.user_id
        /\ HasAddress(r1) /\ HasAddress(r2)
        /\ r1.request.forwarded # r2.request.forwarded
        /\ \E r3 \in resolved : HasIdentity(r3) /\ r3.user_id # r1.user_id /\ r3.request = r1.request

\* C12: a call with an endpoint class that is not ai, api or auth fails at the
\* call: it is resolved to no policy and returns no decision.
EndpointClasses == {"ai", "api", "auth"}
C12_UnknownClassFails ==
    \A r \in resolved :
        r.endpoint_type \notin EndpointClasses =>
            /\ r.config \notin DOMAIN RATE_LIMITS
            /\ ~(done.path = "normal" /\ done.identifier = r.identifier /\ done.cfg = r.config)

\* C13: every call returns: when the store never answers, the call times out
\* and fails open; no call stays blocked on the store.
C13_EveryCallReturns ==
    \A c \in Callers : InFlight(c) ~> ~InFlight(c)

\* C14: with the store unreachable at process start, or the registration of
\* the script failing, startup completes without an exception and the limiter
\* starts Disabled.
C14_StartsDisabled ==
    /\ [](redis_client = "unset" => ENABLED Connect)
    /\ [](redis_client # "unset" /\ redis = "unset"
            => ENABLED (\E registers \in BOOLEAN : RateLimiterInit(registers)))
    /\ [][redis_client = "unset" /\ redis_client' # "unset" /\ ~store_up
            => redis_client' = None]_vars
    /\ [][redis = "unset" /\ redis' # "unset" /\ (~store_up \/ redis_client = None)
            => ~is_enabled']_vars
    /\ [](redis # "unset" /\ (redis_client = None \/ script_sha = None)
            => ~is_enabled /\ done.path \in {"none", "disabled"})
C14_Witness ==
    /\ redis_client = "client" /\ redis = "client" /\ script_sha = None
    /\ store_up /\ done.path = "disabled"

\* C15: a denial is a returned value (allowed = false with the quota of the
\* policy), never an exception, and a return value has retry_after exactly
\* when allowed = false: no admit has one, the fail-open admits included.
C15_DenialIsAValue ==
    done.path # "none" =>
        /\ done.path \in {"normal", "error", "disabled"}
        /\ done.ret.allowed \in BOOLEAN
        /\ (done.ret.retry_after # Absent) <=> ~done.ret.allowed
        /\ ~done.ret.allowed =>
              /\ done.path = "normal"
              /\ done.ret.limit = Capacity(done.cfg)
              /\ done.ret.tokens_remaining < done.cost
              /\ \E n \in 1..LongIdle : done.ret.retry_after = Some(n)
C15_Witness ==
    /\ done.path = "normal" /\ ~done.ret.allowed
    /\ done.ret.retry_after = Some(1) /\ ~done.after_error

\* C16 (amended): a step changes at most one bucket record, and only as the
\* script's run for a call keyed by that call's identifier; what a run reads is
\* what the last run on the same key wrote, and its decision is the refill
\* formula on it, whatever happened on other keys.  A call made while Disabled
\* or whose evalsha raised before the script ran changes no bucket; a call whose
\* reply was lost fails open after the script has updated its bucket.
ScriptRan(d) == "had" \in DOMAIN d      \* the call's script ran: it found `had` tokens
RanFor(c, k) ==
    /\ call[c].pc = "evalsha" /\ call'[c].pc = "reply"
    /\ call[c].key = k /\ k = Key(call[c].identifier)
C16_OneBucketPerCall ==
    /\ [][\A k \in Keys :
            bucket'[k] # bucket[k] =>
                /\ \E c \in DOMAIN call : RanFor(c, k)
                /\ \A j \in Keys \ {k} : bucket'[j] = bucket[j]]_vars
    /\ [][\A k \in Keys :
            log'[k] # log[k] =>
                LET last == log'[k].last
                IN  /\ IF log[k].last = NoLast THEN ~last.pre.exists
                       ELSE /\ last.pre.exists
                            /\ last.pre.tokens = log[k].last.tokens
                            /\ last.pre.last_update = log[k].last.now
                    /\ last.ret.allowed
                         = (Refilled(last.pre, last.now, last.cfg) >= last.cost * TokenUnit)]_vars
    /\ [][done' # done /\ ~ScriptRan(done') => bucket' = bucket]_vars
    /\ [](done.path \in {"disabled", "error"} /\ ScriptRan(done)
            => log[Key(done.identifier)].last # NoLast)
C16_Witness ==
    /\ \A k \in {Key(get_identifier(Direct, u)) : u \in DependsUserIds} :
            bucket[k].exists
    /\ \E k \in Keys : Admitted(k) + Denied(k) = 2
    /\ done.path = "error" /\ ScriptRan(done)

\* C16 as stated: a call that fails open has changed no bucket record.
C16_FailOpenMutatesNothing ==
    done.path \in {"disabled", "error"} => ~ScriptRan(done)

\* C17: two requests of the same caller to different endpoint classes use
\* different bucket records, so no execution under one class's policy finds
\* the tokens left by another class.
SameCaller(r1, r2) == r1.user_id = r2.user_id /\ r1.request = r2.request
C17_KeyScopedByClass ==
    /\ \A r1, r2 \in resolved :
          /\ SameCaller(r1, r2)
          /\ r1.endpoint_type \in EndpointClasses /\ r2.endpoint_type \in EndpointClasses
          /\ r1.endpoint_type # r2.endpoint_type
          => Key(r1.identifier) # Key(r2.identifier)
    /\ \A k \in Keys :
          ~(\E r1, r2 \in resolved :
                /\ r1.endpoint_type \in EndpointClasses /\ r2.endpoint_type \in EndpointClasses
                /\ r1.endpoint_type # r2.endpoint_type
                /\ Key(r1.identifier) = k /\ Key(r2.identifier) = k
                /\ {r1.config, r2.config} \subseteq log[k].cfgs)

\* C18: the policy lookup is total and deterministic on {ai, api, auth} x
\* {authenticated, anonymous}: each pair has one policy of the table, the one of
\* its class and tier, and the auth class has rate 0.5 and capacity 3 for both.
Tiered(class, is_authenticated) ==
    class \o (IF is_authenticated THEN "_authenticated" ELSE "_anonymous")
C18_LookupTotal ==
    /\ \A r \in resolved :
          r.endpoint_type \in EndpointClasses =>
              /\ r.config \in DOMAIN RATE_LIMITS
              /\ r.endpoint_type # "auth" =>
                    r.config = Tiered(r.endpoint_type, r.is_authenticated)
              /\ r.endpoint_type = "auth" =>
                    /\ Rate(r.config) * 2 = TokenUnit
                    /\ Capacity(r.config) = 3
    /\ \A r1, r2 \in resolved :
          /\ r1.endpoint_type = r2.endpoint_type
          /\ r1.is_authenticated = r2.is_authenticated
          => r1.config = r2.config
C18_Witness ==
    \E r1, r2, r3 \in resolved :
        /\ r1.endpoint_type = "auth" /\ r1.is_authenticated
        /\ r2.endpoint_type = "auth" /\ ~r2.is_authenticated
        /\ r3.endpoint_type = "ai" /\ r3.is_authenticated

\* The position of the first 429 among the responses, 0 when there is none.
FirstRejection(rs) ==
    IF \E i \in 1..Len(rs) : rs[i] = 429
    THEN CHOOSE i \in 1..Len(rs) : rs[i] = 429 /\ \A j \in 1..(i - 1) : rs[j] # 429
    ELSE 0

\* C19: a burst of 6 anonymous requests to GET /suggestions within a second is
\* limited by the anonymous AI policy: a request is answered 429, the first one
\* after 2 to 3 admitted requests.
C19_SuggestionsBurstLimited ==
    LET rs == responses["GET /suggestions"]
    IN  Len(rs) = max_requests /\ clock = 0 =>
            FirstRejection(rs) - 1 \in {2, 3}

\* C20: a burst of 6 requests to POST /login within a second is limited by the
\* auth policy, whether the credentials are valid or not: a request is answered
\* 429, the first one after 3 to 4 requests that reached the handler.
C20_LoginBurstLimited ==
    LET rs == responses["POST /login"]
    IN  Len(rs) = max_requests /\ clock = 0 =>
            FirstRejection(rs) - 1 \in {3, 4}

\* C21: eviction of idle keys is unobservable: every execution of the script
\* leads to the same return value on the evicting store as on a store that
\* never evicts.
C21_ExpiryUnobservable ==
    \A k \in Keys :
        log[k].last # NoLast => log[k].last.ret = log[k].last.kept_ret

\* C22: every return value built from a reply of the script carries the
\* capacity of the policy of the call as limit and that policy's refill rate as
\* rate (0.5 included), and its tokens_remaining is the whole-token part of the
\* count the call's update stored.
C22_DecisionReportsPolicy ==
    /\ done.path = "normal" =>
            /\ done.ret.limit = Capacity(done.cfg)
            /\ done.ret.rate * TokenUnit = Rate(done.cfg)
    /\ \A k \in Keys :
            log[k].last # NoLast =>
                log[k].last.ret.tokens_remaining = log[k].last.tokens \div TokenUnit

\* C23: the dependency turns a return value with allowed = False into a 429
\* whose Retry-After header and body retry_after are the return value's
\* retry_after and whose body carries the limit and the nominal rate of the
\* policy; a return value with allowed = True, and every request made while
\* the limiter is disabled, proceeds.
NominalRate ==
    [ai_authenticated |-> "2", ai_anonymous |-> "0.5", api_authenticated |-> "10",
     api_anonymous |-> "5", auth |-> "0.5"]

C23_DenialBecomes429 ==
    /\ ~is_enabled => outcome \in {NoOutcome, Proceeds}
    /\ is_enabled /\ done.path # "none" =>
            IF done.ret.allowed
            THEN outcome = Proceeds
            ELSE /\ outcome.status = "raised"
                 /\ outcome.status_code = 429
                 /\ outcome.headers["Retry-After"] = ToString(TheValue(done.ret.retry_after))
                 /\ outcome.detail.retry_after = TheValue(done.ret.retry_after)
                 /\ outcome.detail.limit = done.ret.limit
                 /\ outcome.detail.rate = NominalRate[done.cfg] \o " requests/second"

\* A request on a policy with a fractional rate has been rejected.
C23_Witness ==
    /\ outcome.status = "raised"
    /\ done.cfg = "ai_anonymous"
    /\ ~done.ret.allowed

\* C24: the last_update stored under a key never decreases from one execution
\* of the script to the next.
C24_LastUpdateMonotonic ==
    [][\A k \in Keys :
          bucket[k].exists /\ bucket'[k].exists =>
              bucket'[k].last_update >= bucket[k].last_update]_vars

\* C25: an execution that finds at least the cost after the refill admits,
\* stores the refilled count less the cost with last_update = now, resets the
\* key's expiry, and returns exactly the stored count and the capacity.
C25_AdmitUpdate ==
    [][\A k \in Keys :
          LET l == log'[k].last
              found == Refilled(l.pre, l.now, l.cfg)
              left == found - l.cost * TokenUnit
          IN  log'[k] # log[k] /\ found >= l.cost * TokenUnit =>
                  /\ l.ret.allowed
                  /\ bucket'[k] = [exists |-> TRUE, tokens |-> left, last_update |-> l.now,
                                   expire_at |-> clock + TTL(Rate(l.cfg), Capacity(l.cfg))]
                  /\ l.ret.tokens_remaining * TokenUnit = left
                  /\ l.ret.limit = Capacity(l.cfg)]_vars

\* C26: an execution that finds less than the cost after the refill denies,
\* stores the refilled count with last_update = now, resets the key's expiry,
\* and returns exactly the stored count; the stored count is not lowered.
C26_DenyUpdate ==
    [][\A k \in Keys :
          LET l == log'[k].last
              found == Refilled(l.pre, l.now, l.cfg)
          IN  log'[k] # log[k] /\ found < l.cost * TokenUnit =>
                  /\ ~l.ret.allowed
                  /\ bucket'[k] = [exists |-> TRUE, tokens |-> found, last_update |-> l.now,
                                   expire_at |-> clock + TTL(Rate(l.cfg), Capacity(l.cfg))]
                  /\ l.pre.exists => bucket'[k].tokens >= l.pre.tokens
                  /\ l.ret.tokens_remaining * TokenUnit = found]_vars

\* C27: the refill never removes tokens: the count an execution finds after
\* the refill is at least the stored count clamped to the capacity, also when
\* its timestamp is earlier than the stored last_update.
C27_RefillNeverRemoves ==
    \A k \in Keys :
        LET l == log[k].last
        IN  l # NoLast /\ l.pre.exists =>
                l.tokens + (IF l.ret.allowed THEN l.cost * TokenUnit ELSE 0)
                    >= Min(l.pre.tokens, Capacity(l.cfg) * TokenUnit)

\* An execution whose timestamp is earlier than the last_update it read, on a
\* bucket that was not full.
C27_Witness ==
    \E k \in Keys :
        LET l == log[k].last
        IN  /\ l # NoLast /\ l.pre.exists
            /\ l.now < l.pre.last_update
            /\ l.pre.tokens < Capacity(l.cfg) * TokenUnit

\* C28: a request without identity is keyed by "ip:" and the left-most entry
\* of the forwarded-address header, surrounding blanks removed, when the header
\* has a value; by the peer address otherwise; by "unknown" when there is no peer.
LeftMostEntry(header) ==
    LET commas == {i \in 1..Len(header) : header[i] = ","}
        entry == SubSeq(header, 1, IF commas = {} THEN Len(header)
                                   ELSE (CHOOSE i \in commas : \A j \in commas : i <= j) - 1)
        inked == {i \in 1..Len(entry) : entry[i] # " "}
    IN  IF inked = {} THEN <<>>
        ELSE SubSeq(entry, CHOOSE i \in inked : \A j \in inked : i <= j,
                           CHOOSE i \in inked : \A j \in inked : i >= j)

C28_AddressResolution ==
    \A r \in resolved :
        ~HasIdentity(r) =>
            r.identifier = "ip:" \o
                (IF r.request.forwarded \notin {Absent, Some(<<>>)}
                 THEN Str(LeftMostEntry(TheValue(r.request.forwarded)))
                 ELSE IF r.request.client # Absent THEN TheValue(r.request.client)
                 ELSE "unknown")

\* Requests without identity resolved in each of the three ways: a forwarded
\* chain with blanks around its first entry, a peer only, neither.
C28_Witness ==
    \E r1, r2, r3 \in resolved :
        /\ ~HasIdentity(r1) /\ ~HasIdentity(r2) /\ ~HasIdentity(r3)
        /\ r1.request.forwarded = Some(<<" ", "b", " ", ",", "a">>) /\ r1.identifier = "ip:b"
        /\ r2.request.forwarded = Absent /\ r2.request.client = Some("a")
        /\ r3.request.forwarded = Absent /\ r3.request.client = Absent
        /\ r3.identifier = "ip:unknown"

\* C30: in the dependency the policy tier agrees with the namespace of the
\* key: the authenticated policy goes with the key "user:" + identity and only
\* with it, the anonymous policy with a key "ip:" + address and only with it,
\* whatever the identity passed, the empty string included.
Addresses == {"a", "b", "unknown", "user:u1"}
InUserNamespace(r) == r.user_id # None /\ r.identifier = "user:" \o r.user_id
InAddressNamespace(r) == \E a \in Addresses : r.identifier = "ip:" \o a

C30_TierAgreesWithKey ==
    \A r \in resolved :
        r.endpoint_type \in {"ai", "api"} =>
            /\ r.config = Tiered(r.endpoint_type, TRUE) <=> InUserNamespace(r)
            /\ r.config = Tiered(r.endpoint_type, FALSE) <=> InAddressNamespace(r)

\* C29: of the requests of one anonymous address, those of the auth class
\* admitted with timestamps in a window of T seconds are at most 3 + 0.5 * T,
\* whatever requests of other classes the address sends in between.
AuthAdmitted(k) ==
    [t \in 0..clock |-> Count(log[k].admitted_by, <<"auth", t>>)]

C29_AuthBoundAcrossClasses ==
    \A t0 \in 0..clock, t1 \in 0..clock :
        t0 <= t1 =>
            InWindow(AuthAdmitted(Key(get_identifier(Direct, None))), t0, t1) * TokenUnit
                <= Capacity("auth") * TokenUnit + Rate("auth") * (t1 - t0)

\* C31: the key of a request resolved by its address never equals the key of
\* a request resolved by its identity: the first is "rate_limit:ip:" and an
\* address, the second "rate_limit:user:" and the identity, whatever the
\* forwarded header holds.
C31_NamespacesDisjoint ==
    \A r1 \in resolved, r2 \in resolved :
        HasIdentity(r1) /\ ~HasIdentity(r2) =>
            /\ r1.identifier = "user:" \o r1.user_id
            /\ InAddressNamespace(r2)
            /\ Key(r1.identifier) # Key(r2.identifier)

\* An anonymous request whose forwarded header spells the identifier of a user
\* who has also been resolved.
C31_Witness ==
    \E r1 \in resolved, r2 \in resolved :
        /\ r1.user_id = "u1" /\ r1.identifier = "user:u1"
        /\ ~HasIdentity(r2)
        /\ r2.request.forwarded = Some(<<"u", "s", "e", "r", ":", "u", "1">>)
        /\ r2.identifier = "ip:user:u1"

\* C32: no call ends with an exception: every call returns a value, and a
\* denial under a policy with rate 0 carries retry_after = 1.
C32_NeverRaises ==
    /\ done.path # "raised"
    /\ done.path = "normal" /\ Rate(done.cfg) = 0 /\ ~done.ret.allowed =>
            done.ret.retry_after = Some(1)

\* C33: an execution whose cost exceeds the capacity of its policy denies,
\* whatever the bucket holds and whenever it runs; the denial carries a
\* retry_after of at least one second and the execution stores last_update =
\* now and resets the key's expiry.
C33_OversizeAlwaysDenied ==
    [][\A k \in Keys :
          LET l == log'[k].last
          IN  log'[k] # log[k] /\ l.cost > Capacity(l.cfg) =>
                  /\ ~l.ret.allowed
                  /\ \E n \in 1..(l.cost + 1) : l.ret.retry_after = Some(n)
                  /\ bucket'[k].exists
                  /\ bucket'[k].last_update = l.now
                  /\ bucket'[k].expire_at = clock + TTL(Rate(l.cfg), Capacity(l.cfg))]_vars

\* A request for more than the capacity was denied, was sent again after the
\* retry_after of the denial, and was denied again.
C33_Witness ==
    /\ done.path = "normal"
    /\ done.cost > Capacity(done.cfg)
    /\ done.retry
    /\ ~done.ret.allowed

====
